---- MODULE Spec2Model ----
(***************************************************************************)
(* Model of src/algo.py: Probabilistic Serial on padded ordinal            *)
(* preferences, the split into unit-demand representatives, and the        *)
(* Birkhoff-von-Neumann decomposition driven by an augmenting-path         *)
(* bipartite matcher.                                                      *)
(*                                                                         *)
(* Python lists are sequences; list index i is position i + 1.  Items,     *)
(* agents and graph vertices keep their 0-based Python numbers.  Values of *)
(* fractions.Fraction (and the ints mixed with them) are records           *)
(* [num, den] in lowest terms with den > 0, so Python's == is record       *)
(* equality.                                                               *)
(***************************************************************************)
EXTENDS Integers, Sequences, FiniteSets, TLC

\* ---------------------------------------------------------------- bounds
MaxN == 3
MaxM == 4
MaxCells == 6
MaxUtil == 2
MaxSize == 3
MaxEntry == 1
MaxRawRows == 3
MaxRawCols == 2
MaxRawUtil == 1

\* ---------------------------------------------------- exact rationals
Abs(x) == IF x < 0 THEN -x ELSE x

RECURSIVE GCD(_, _)
GCD(a, b) == IF b = 0 THEN a ELSE GCD(b, a % b)

\* Fraction(nu, de) with de > 0, reduced to lowest terms
Frac(nu, de) ==
    LET g == GCD(Abs(nu), de)
    IN  [num |-> nu \div g, den |-> de \div g]

Zero == Frac(0, 1)
One == Frac(1, 1)

FAdd(x, y) == Frac(x.num * y.den + y.num * x.den, x.den * y.den)
FSub(x, y) == Frac(x.num * y.den - y.num * x.den, x.den * y.den)
FMul(x, y) == Frac(x.num * y.num, x.den * y.den)
FDivInt(x, k) == Frac(x.num, x.den * k)
FLt(x, y) == x.num * y.den < y.num * x.den
FLe(x, y) == x.num * y.den <= y.num * x.den

\* ------------------------------------------------------ list helpers
Range(s) == {s[i] : i \in 1..Len(s)}
Min2(a, b) == IF a < b THEN a ELSE b
SetMin(S) == CHOOSE x \in S : \A y \in S : x <= y
Const(k, v) == [i \in 1..k |-> v]

RECURSIVE FSum(_)
FSum(s) == IF s = <<>> THEN Zero ELSE FAdd(s[1], FSum(Tail(s)))

\* math.ceil(float(m) / n) for positive ints
CeilDiv(a, b) == (a + b - 1) \div b

\* ---------------------------------------------------- generate_prefs
\* faulty variant of KeyBefore: equal utilities ordered by descending index
KeyBefore_TiesDescending(a, b) == \/ a[1] > b[1]
                                  \/ a[1] = b[1] /\ a[2] > b[2]

\* sorted(..., key = lambda v: (-v[0], v[1])): pair a goes before pair b
KeyBefore(a, b) == \/ a[1] > b[1]
                   \/ a[1] = b[1] /\ a[2] < b[2]

RECURSIVE SortedPairs(_)
SortedPairs(S) ==
    IF S = {} THEN <<>>
    ELSE LET f == CHOOSE x \in S : \A y \in S \ {x} : KeyBefore(x, y)
         IN  <<f>> \o SortedPairs(S \ {f})

\* zip(l + dummy, range(t_obj)) stops at the shorter argument
ZipRange(l, t) == {<<l[i], i - 1>> : i \in 1..Min2(Len(l), t)}

\* One row of the ordinal profile: the index component of the sorted pairs
PrefRow(l, dummy, t) ==
    LET sp == SortedPairs(ZipRange(l \o dummy, t))
    IN  [i \in 1..Len(sp) |-> sp[i][2]]

\* generate_prefs(utils); exc is the exception the call raises, if any
generate_prefs(u) ==
    IF Len(u) = 0
    THEN [exc |-> "IndexError", n |-> 0, m |-> 0, c |-> 0, prefs |-> <<>>]
    ELSE IF \E i \in 1..Len(u) : Len(u[i]) = 0
    THEN [exc |-> "ValueError", n |-> 0, m |-> 0, c |-> 0, prefs |-> <<>>]
    ELSE LET nn == Len(u)
             mm == Len(u[1])
             min_util == SetMin(UNION {Range(u[i]) : i \in 1..nn})
             cc == CeilDiv(mm, nn)
             t_obj == cc * nn
             dummy == Const(t_obj - mm, min_util - 1)
         IN  [exc |-> "none", n |-> nn, m |-> mm, c |-> cc,
              prefs |-> [i \in 1..nn |-> PrefRow(u[i], dummy, t_obj)]]

\* ----------------------------------------------------------- run_ps
\* Counter([l[0] for l in prefs]): how many agents favour item x
FavCount(p, x) == Cardinality({a \in 1..Len(p) : p[a][1] = x})
Favs(p) == {p[a][1] : a \in 1..Len(p)}

\* the for-count loop: to_eat starts at 1 and is lowered to every smaller amt
RECURSIVE MinAmt(_, _, _, _)
MinAmt(S, p, ob, to_eat) ==
    IF S = {} THEN to_eat
    ELSE LET x == CHOOSE y \in S : TRUE
             amt == FDivInt(ob[x + 1], FavCount(p, x))
         IN  MinAmt(S \ {x}, p, ob, IF FLt(amt, to_eat) THEN amt ELSE to_eat)

ToEat(p, ob) == MinAmt(Favs(p), p, ob, One)

\* faulty variant of EatLoop: alloc[agent][fav_obj] = to_eat in place of +=
RECURSIVE EatLoop_Overwrite(_, _, _, _)
EatLoop_Overwrite(agent, p, st, to_eat) ==
    IF agent >= Len(p) THEN st
    ELSE LET fav_obj == p[agent + 1][1]
             al == [st.alloc EXCEPT ![agent + 1][fav_obj + 1] = to_eat]
             ob == [st.objs EXCEPT ![fav_obj + 1] = FSub(@, to_eat)]
         IN  EatLoop_Overwrite(agent + 1, p, [alloc |-> al, objs |-> ob], to_eat)

\* the for-agent loop, agents agent .. n-1 still to eat
RECURSIVE EatLoop(_, _, _, _)
EatLoop(agent, p, st, to_eat) ==
    IF agent >= Len(p) THEN st
    ELSE LET fav_obj == p[agent + 1][1]
             al == [st.alloc EXCEPT ![agent + 1][fav_obj + 1] = FAdd(@, to_eat)]
             ob == [st.objs EXCEPT ![fav_obj + 1] = FSub(@, to_eat)]
         IN  EatLoop(agent + 1, p, [alloc |-> al, objs |-> ob], to_eat)

\* faulty variant of DropExhausted: only the list the loop tests is filtered
DropExhausted_FirstOnly(p, ob) ==
    [a \in 1..Len(p) |->
        IF a = 1 THEN SelectSeq(p[a], LAMBDA x : ob[x + 1] # Zero) ELSE p[a]]

\* prefs = [[x for x in y if not objs[x] == 0] for y in prefs]
DropExhausted(p, ob) ==
    [a \in 1..Len(p) |-> SelectSeq(p[a], LAMBDA x : ob[x + 1] # Zero)]

\* One iteration of the while loop of run_ps (every list non-empty)
PsRound(st) ==
    LET to_eat == ToEat(st.prefs, st.objs)
        e == EatLoop(0, st.prefs, [alloc |-> st.alloc, objs |-> st.objs], to_eat)
    IN  [prefs |-> DropExhausted(st.prefs, e.objs), objs |-> e.objs, alloc |-> e.alloc]

\* The locals of run_ps before the loop
PsStart(nn, cc, const_prefs) ==
    [prefs |-> const_prefs,
     objs |-> Const(cc * nn, One),
     alloc |-> Const(nn, Const(cc * nn, Zero))]

\* l[0] of an empty list inside the loop raises IndexError
PsRaises(st) == \E a \in 1..Len(st.prefs) : Len(st.prefs[a]) = 0

RECURSIVE PsLoop(_)
PsLoop(st) ==
    IF Len(st.prefs[1]) = 0 \/ PsRaises(st) THEN st ELSE PsLoop(PsRound(st))

\* run_ps(n, c, const_prefs): the allocation it returns
run_ps(nn, cc, const_prefs) == PsLoop(PsStart(nn, cc, const_prefs)).alloc

\* ------------------------------------------------------ representative
\* faulty variant of RepEat: the amount eaten is not taken off alloc[agent]
RECURSIVE RepEat_NoDeduct(_, _, _, _, _)
RepEat_NoDeduct(agent, p, al, suballoc, amt) ==
    IF ~FLt(Zero, amt)
    THEN [prefs |-> p, alloc |-> al, suballoc |-> suballoc, err |-> FALSE]
    ELSE IF Len(p[agent + 1]) = 0
    THEN [prefs |-> p, alloc |-> al, suballoc |-> suballoc, err |-> TRUE]
    ELSE LET cur_obj == p[agent + 1][1]
             whole == al[agent + 1][cur_obj + 1]
             part == FLt(amt, whole)
             val == IF part THEN amt ELSE whole
             p2 == IF part THEN p ELSE [p EXCEPT ![agent + 1] = Tail(@)]
         IN  RepEat_NoDeduct(agent, p2, al,
                             [suballoc EXCEPT ![cur_obj + 1] = val],
                             FSub(amt, val))

\* the while amt > 0 loop of one representative
RECURSIVE RepEat(_, _, _, _, _)
RepEat(agent, p, al, suballoc, amt) ==
    IF ~FLt(Zero, amt)
    THEN [prefs |-> p, alloc |-> al, suballoc |-> suballoc, err |-> FALSE]
    ELSE IF Len(p[agent + 1]) = 0
    THEN [prefs |-> p, alloc |-> al, suballoc |-> suballoc, err |-> TRUE]
    ELSE LET cur_obj == p[agent + 1][1]
             whole == al[agent + 1][cur_obj + 1]
             part == FLt(amt, whole)
             val == IF part THEN amt ELSE whole
             p2 == IF part THEN p ELSE [p EXCEPT ![agent + 1] = Tail(@)]
         IN  RepEat(agent, p2,
                    [al EXCEPT ![agent + 1][cur_obj + 1] = FSub(@, val)],
                    [suballoc EXCEPT ![cur_obj + 1] = val],
                    FSub(amt, val))

\* the two for loops, flattened: k = agent * c + rep
RECURSIVE RepLoop(_, _, _, _)
RepLoop(k, nn, cc, st) ==
    IF k >= nn * cc \/ st.err THEN st
    ELSE LET r == RepEat(k \div cc, st.prefs, st.alloc, Const(cc * nn, Zero), One)
         IN  RepLoop(k + 1, nn, cc,
                     [prefs |-> r.prefs, alloc |-> r.alloc,
                      res_alloc |-> IF r.err THEN st.res_alloc
                                    ELSE Append(st.res_alloc, r.suballoc),
                      err |-> r.err])

\* representative(prefs, alloc, n, c): result and the arguments as it leaves them
representative(p, al, nn, cc) ==
    RepLoop(0, nn, cc, [prefs |-> p, alloc |-> al, res_alloc |-> <<>>, err |-> FALSE])

\* ------------------------------------------------------ bipartite matcher
\* faulty variant of connected: >= 0 in place of > 0
connected_NonStrict(al, u, v, size) ==
    IF u < size THEN FLe(Zero, al[u + 1][v - size + 1])
    ELSE FLe(Zero, al[v + 1][u - size + 1])

connected(al, u, v, size) ==
    IF u < size THEN FLt(Zero, al[u + 1][v - size + 1])
    ELSE FLt(Zero, al[v + 1][u - size + 1])

allowable(mt, u, v, size) ==
    IF u < size THEN mt[u + 1] # v ELSE mt[v + 1] = u

\* the BFS while loop of augment; the vertex reached, or -1, with pred
RECURSIVE Bfs(_, _, _, _, _, _)
Bfs(al, mt, size, q, found, pred) ==
    IF q = <<>> THEN [end |-> -1, pred |-> pred]
    ELSE LET v == Head(q)
         IN  IF v >= size /\ mt[v + 1] = -1 THEN [end |-> v, pred |-> pred]
             ELSE LET base == IF v >= size THEN 0 ELSE size
                      new == SelectSeq([k \in 1..size |-> base + k - 1],
                                       LAMBDA i : /\ connected(al, v, i, size)
                                                  /\ allowable(mt, v, i, size)
                                                  /\ ~found[i + 1])
                  IN  Bfs(al, mt, size, Tail(q) \o new,
                          [x \in 1..(2 * size) |-> found[x] \/ (x - 1) \in Range(new)],
                          [x \in 1..(2 * size) |->
                              IF (x - 1) \in Range(new) THEN v ELSE pred[x]])

RECURSIVE PathTo(_, _)
PathTo(end, pred) ==
    IF end = -1 THEN <<>> ELSE Append(PathTo(pred[end + 1], pred), end)

\* augment(alloc, match, n): the path as a list, or <<>> for None
augment(al, mt, size) ==
    LET free == SelectSeq([k \in 1..size |-> k - 1], LAMBDA i : mt[i + 1] = -1)
        r == Bfs(al, mt, size, free,
                 [x \in 1..(2 * size) |-> (x - 1) \in Range(free)],
                 Const(2 * size, -1))
    IN  PathTo(r.end, r.pred)

\* faulty variant of ApplyPath: only the left vertices of the path are rematched
RECURSIVE ApplyPath_LeftOnly(_, _, _, _)
ApplyPath_LeftOnly(path, i, mt, size) ==
    IF i > Len(path) THEN mt
    ELSE ApplyPath_LeftOnly(path, i + 1,
                            IF path[i] < size
                            THEN [mt EXCEPT ![path[i] + 1] = path[i + 1]]
                            ELSE mt,
                            size)

\* for i in range(len(path)): flip the edges of the path
RECURSIVE ApplyPath(_, _, _, _)
ApplyPath(path, i, mt, size) ==
    IF i > Len(path) THEN mt
    ELSE ApplyPath(path, i + 1,
                   [mt EXCEPT ![path[i] + 1] =
                       IF path[i] < size THEN path[i + 1] ELSE path[i - 1]],
                   size)

RECURSIVE HkLoop(_, _, _)
HkLoop(al, mt, size) ==
    LET path == augment(al, mt, size)
    IN  IF path = <<>> THEN mt ELSE HkLoop(al, ApplyPath(path, 1, mt, size), size)

\* hopcroft_karp(alloc, n): [x - n for x in match[0:n]]
hopcroft_karp(al, size) ==
    LET mt == HkLoop(al, Const(2 * size, -1), size)
    IN  [i \in 1..size |-> mt[i] - size]

\* ------------------------------------------------------------- decompose
\* reduce(perm, n, m, c): the rows of each block of c representatives added up
RECURSIVE RowSum(_, _, _, _)
RowSum(perm, lo, hi, j) ==
    IF lo > hi THEN 0 ELSE perm[lo][j] + RowSum(perm, lo + 1, hi, j)

\* faulty variant of reduce: k is not advanced, every block reads its first row
reduce_FirstRow(perm, nn, mm, cc) ==
    [a \in 1..nn |-> [j \in 1..mm |-> cc * perm[(a - 1) * cc + 1][j]]]

reduce(perm, nn, mm, cc) ==
    [a \in 1..nn |-> [j \in 1..mm |-> RowSum(perm, (a - 1) * cc + 1, a * cc, j)]]

\* the zero entries counted off n*n*c*c
CountNonZero(al, size) ==
    size * size - Cardinality({ij \in (1..size) \X (1..size) : al[ij[1]][ij[2]] = Zero})

\* alloc[i][match[i]] raises IndexError when match[i] is no index of the row;
\* an unmatched vertex comes back from hopcroft_karp as -1 - size
MatchRaises(mt, size) == \E i \in 1..size : mt[i] < -size \/ mt[i] >= size

\* min_val over the matched entries, rows i .. size still to look at
RECURSIVE MinVal(_, _, _, _, _)
MinVal(al, mt, size, i, min_val) ==
    IF i > size THEN min_val
    ELSE LET x == al[i][mt[i] + 1]
         IN  MinVal(al, mt, size, i + 1, IF FLt(x, min_val) THEN x ELSE min_val)

\* the for i in range(n * c) loop of one round
RECURSIVE ApplyMatch(_, _, _, _, _, _)
ApplyMatch(i, mt, size, mm, min_val, st) ==
    IF i > size THEN st
    ELSE LET j == mt[i]
             d == IF j < mm THEN [st.disc_alloc EXCEPT ![i][j + 1] = 1]
                  ELSE st.disc_alloc
             al == [st.alloc EXCEPT ![i][j + 1] = FSub(@, min_val)]
         IN  ApplyMatch(i + 1, mt, size, mm, min_val,
                        [disc_alloc |-> d, alloc |-> al,
                         non_zero |-> IF al[i][j + 1] = Zero
                                      THEN st.non_zero - 1 ELSE st.non_zero])

\* ------------------------------------------------------------ state
VARIABLES pc, exc, utils, n, m, c, prefs,
          ps_prefs, objs, ps_alloc,
          rep_alloc, match, non_zero, decomposition

vars == <<pc, exc, utils, n, m, c, prefs, ps_prefs, objs, ps_alloc,
          rep_alloc, match, non_zero, decomposition>>

\* rectangular utility matrices of the bounded shapes
Shapes == {s \in (1..MaxN) \X (1..MaxM) : s[1] * s[2] <= MaxCells}
UtilMatrices ==
    UNION {[1..s[1] -> [1..s[2] -> 0..MaxUtil]] : s \in Shapes}

\* nothing computed yet: the script is about to call generate_prefs
Unstarted ==
    /\ pc = "generate_prefs"
    /\ exc = "none"
    /\ n = 0 /\ m = 0 /\ c = 0
    /\ prefs = <<>>
    /\ ps_prefs = <<>> /\ objs = <<>> /\ ps_alloc = <<>>
    /\ rep_alloc = <<>> /\ match = <<>> /\ non_zero = 0
    /\ decomposition = <<>>

\* utils = [[4, 3, 2, 1], [4, 2, 3, 1], [1, 2, 3, 4]], the input of the script
ExampleUtils == <<<<4, 3, 2, 1>>, <<4, 2, 3, 1>>, <<1, 2, 3, 4>>>>

Init ==
    /\ utils \in UtilMatrices \cup {ExampleUtils}
    /\ Unstarted

\* n, m, c, prefs = generate_prefs(utils)
GeneratePrefs ==
    /\ pc = "generate_prefs"
    /\ LET r == generate_prefs(utils)
       IN  /\ exc' = r.exc
           /\ n' = r.n /\ m' = r.m /\ c' = r.c
           /\ prefs' = r.prefs
           /\ pc' = IF r.exc = "none" THEN "run_ps" ELSE "error"
    /\ UNCHANGED <<utils, ps_prefs, objs, ps_alloc,
                   rep_alloc, match, non_zero, decomposition>>

\* run_ps entry: deep copy of the preferences, full supply, empty allocation
RunPsBegin ==
    /\ pc = "run_ps"
    /\ LET st == PsStart(n, c, prefs)
       IN  /\ ps_prefs' = st.prefs
           /\ objs' = st.objs
           /\ ps_alloc' = st.alloc
    /\ pc' = "ps_loop"
    /\ UNCHANGED <<exc, utils, n, m, c, prefs,
                   rep_alloc, match, non_zero, decomposition>>

\* one iteration of the while len(prefs[0]) loop
RunPsRound ==
    /\ pc = "ps_loop"
    /\ Len(ps_prefs[1]) > 0
    /\ LET st == [prefs |-> ps_prefs, objs |-> objs, alloc |-> ps_alloc]
       IN  IF PsRaises(st)
           THEN /\ exc' = "IndexError"
                /\ pc' = "error"
                /\ UNCHANGED <<ps_prefs, objs, ps_alloc>>
           ELSE /\ ps_alloc' = PsRound(st).alloc
                /\ objs' = PsRound(st).objs
                /\ ps_prefs' = PsRound(st).prefs
                /\ UNCHANGED <<pc, exc>>
    /\ UNCHANGED <<utils, n, m, c, prefs, rep_alloc, match, non_zero, decomposition>>

\* loop exit: run_ps returns alloc, which the caller names ps_alloc
RunPsReturn ==
    /\ pc = "ps_loop"
    /\ Len(ps_prefs[1]) = 0
    /\ pc' = "representative"
    /\ UNCHANGED <<exc, utils, n, m, c, prefs, ps_prefs, objs, ps_alloc,
                   rep_alloc, match, non_zero, decomposition>>

\* rep_alloc = representative(prefs, ps_alloc, n, c), working on its arguments
Representative ==
    /\ pc = "representative"
    /\ LET r == representative(prefs, ps_alloc, n, c)
       IN  /\ prefs' = r.prefs
           /\ ps_alloc' = r.alloc
           /\ rep_alloc' = IF r.err THEN rep_alloc ELSE r.res_alloc
           /\ exc' = IF r.err THEN "IndexError" ELSE exc
           /\ pc' = IF r.err THEN "error" ELSE "decompose"
    /\ UNCHANGED <<utils, n, m, c, ps_prefs, objs, match, non_zero, decomposition>>

\* decompose entry: count the non-zero entries, empty decomposition
DecomposeBegin ==
    /\ pc = "decompose"
    /\ non_zero' = CountNonZero(rep_alloc, n * c)
    /\ decomposition' = <<>>
    /\ pc' = "dec_loop"
    /\ UNCHANGED <<exc, utils, n, m, c, prefs, ps_prefs, objs, ps_alloc,
                   rep_alloc, match>>

\* while non_zero: match = hopcroft_karp(alloc, n * c)
DecomposeMatch ==
    /\ pc = "dec_loop"
    /\ non_zero # 0
    /\ match' = hopcroft_karp(rep_alloc, n * c)
    /\ pc' = "dec_apply"
    /\ UNCHANGED <<exc, utils, n, m, c, prefs, ps_prefs, objs, ps_alloc,
                   rep_alloc, non_zero, decomposition>>

\* the rest of the round: min_val, the discrete allocation, the subtraction
DecomposeApply ==
    /\ pc = "dec_apply"
    /\ IF MatchRaises(match, n * c)
       THEN /\ exc' = "IndexError"
            /\ pc' = "error"
            /\ UNCHANGED <<rep_alloc, non_zero, decomposition>>
       ELSE LET size == n * c
                min_val == MinVal(rep_alloc, match, size, 2,
                                  rep_alloc[1][match[1] + 1])
                st == ApplyMatch(1, match, size, m, min_val,
                                 [disc_alloc |-> Const(size, Const(m, 0)),
                                  alloc |-> rep_alloc, non_zero |-> non_zero])
            IN  /\ rep_alloc' = st.alloc
                /\ non_zero' = st.non_zero
                /\ decomposition' =
                       Append(decomposition, <<min_val, reduce(st.disc_alloc, n, m, c)>>)
                /\ pc' = "dec_loop"
                /\ UNCHANGED exc
    /\ UNCHANGED <<utils, n, m, c, prefs, ps_prefs, objs, ps_alloc, match>>

\* loop exit: return decomposition
DecomposeReturn ==
    /\ pc = "dec_loop"
    /\ non_zero = 0
    /\ pc' = "done"
    /\ UNCHANGED <<exc, utils, n, m, c, prefs, ps_prefs, objs, ps_alloc,
                   rep_alloc, match, non_zero, decomposition>>

Next ==
    \/ GeneratePrefs
    \/ RunPsBegin
    \/ RunPsRound
    \/ RunPsReturn
    \/ Representative
    \/ DecomposeBegin
    \/ DecomposeMatch
    \/ DecomposeApply
    \/ DecomposeReturn

Spec == Init /\ [][Next]_vars

\* ------------------------------------------ generate_prefs on any list of lists
\* lists of up to MaxRawRows rows of up to MaxRawCols utilities, ragged or empty
RawRows == UNION {[1..k -> 0..MaxRawUtil] : k \in 0..MaxRawCols}
RawMatrices == UNION {[1..k -> RawRows] : k \in 0..MaxRawRows}

InitRaw ==
    /\ utils \in RawMatrices
    /\ Unstarted

SpecRaw == InitRaw /\ [][Next]_vars

\* ------------------------------------------ decompose on any square matrix
\* decompose(alloc, n, 1, n) called with a matrix of entries 0 .. MaxEntry
SquareMatrices ==
    UNION {[1..k -> [1..k -> {Frac(e, 1) : e \in 0..MaxEntry}]] : k \in 1..MaxSize}

InitHK ==
    /\ rep_alloc \in SquareMatrices
    /\ n = Len(rep_alloc) /\ m = Len(rep_alloc) /\ c = 1
    /\ pc = "decompose"
    /\ exc = "none"
    /\ utils = <<>> /\ prefs = <<>>
    /\ ps_prefs = <<>> /\ objs = <<>> /\ ps_alloc = <<>>
    /\ match = <<>> /\ non_zero = 0
    /\ decomposition = <<>>

NextHK ==
    \/ DecomposeBegin
    \/ DecomposeMatch
    \/ DecomposeApply
    \/ DecomposeReturn

SpecHK == InitHK /\ [][NextHK]_vars

\* ================================================================ claims
ColumnOf(M, j) == [a \in 1..Len(M) |-> M[a][j]]
Weights(dec) == [k \in 1..Len(dec) |-> dec[k][1]]

\* sum over the sequence of weight * assignment[a][j]
RECURSIVE WeightedSum(_, _, _)
WeightedSum(dec, a, j) ==
    IF dec = <<>> THEN Zero
    ELSE FAdd(FMul(dec[1][1], Frac(dec[1][2][a][j], 1)), WeightedSum(Tail(dec), a, j))

\* the allocation run_ps returns for the utilities of this run
PsOfUtils ==
    LET gp == generate_prefs(utils) IN run_ps(gp.n, gp.c, gp.prefs)

\* C1: when the pipeline has returned, for every agent a and real item j < m the
\* sum over the decomposition of weight * assignment[a][j] is the value run_ps
\* produced for alloc[a][j].
C1_WeightedSumIsPs ==
    pc = "done" =>
        /\ \A k \in 1..Len(decomposition) :
               /\ Len(decomposition[k][2]) = n
               /\ \A a \in 1..n : Len(decomposition[k][2][a]) = m
        /\ \A a \in 1..n : \A j \in 1..m :
               WeightedSum(decomposition, a, j) = PsOfUtils[a][j]

C1_Witness ==
    /\ pc = "done"
    /\ c > 1 /\ m < c * n
    /\ Len(decomposition) >= 3
    /\ \E a \in 1..n : \E j \in 1..m : PsOfUtils[a][j].den > 1

\* C2: every weight appended by decompose is strictly positive, being the
\* minimum working-matrix entry over the matched pairs, and the weights of the
\* returned decomposition sum to exactly 1.
C2_WeightsPositiveSumOne ==
    /\ [][pc = "dec_apply" =>
              /\ Len(decomposition') = Len(decomposition) + 1
              /\ SubSeq(decomposition', 1, Len(decomposition)) = decomposition
              /\ LET w == decomposition'[Len(decomposition')][1]
                 IN  /\ FLt(Zero, w)
                     /\ \A i \in 1..(n * c) : FLe(w, rep_alloc[i][match[i] + 1])
                     /\ \E i \in 1..(n * c) : w = rep_alloc[i][match[i] + 1]]_vars
    /\ [][\A k \in 1..Len(decomposition') : FLt(Zero, decomposition'[k][1])]_vars
    /\ [][pc' = "done" => FSum(Weights(decomposition')) = One]_vars

C2_Witness ==
    /\ pc = "done"
    /\ Len(decomposition) >= 2
    /\ decomposition[1][1] # decomposition[2][1]

\* C3 as stated: the allocation returned by run_ps has every row summing to
\* exactly 1 and every column summing to at most 1.
C3_RowsSumToOne ==
    pc = "representative" =>
        /\ \A a \in 1..n : FSum(ps_alloc[a]) = One
        /\ \A j \in 1..(c * n) : FLe(FSum(ColumnOf(ps_alloc, j)), One)

\* C3 amended: the allocation returned by run_ps has every row summing to
\* exactly c = ceil(m/n) and every column summing to at most 1.
C3_RowsSumToC ==
    pc = "representative" =>
        /\ Len(ps_alloc) = n
        /\ \A a \in 1..n : Len(ps_alloc[a]) = c * n
        /\ \A a \in 1..n : FSum(ps_alloc[a]) = Frac(c, 1)
        /\ \A j \in 1..(c * n) : FLe(FSum(ColumnOf(ps_alloc, j)), One)

C3_Witness ==
    /\ pc = "representative"
    /\ c > 1
    /\ \E a \in 1..n : \E j \in 1..(c * n) : ps_alloc[a][j].den > 1

\* C4: in every round of decompose the matching hopcroft_karp returned maps each
\* of the c*n representatives to one column of [0, c*n), no column twice, and
\* every matched entry of the working matrix is strictly positive.
C4_PerfectMatching ==
    pc = "dec_apply" =>
        /\ Len(match) = n * c
        /\ \A i \in 1..(n * c) :
               /\ match[i] \in 0..(n * c - 1)
               /\ FLt(Zero, rep_alloc[i][match[i] + 1])
        /\ \A i, k \in 1..(n * c) : i # k => match[i] # match[k]

C4_Witness ==
    /\ pc = "dec_apply"
    /\ c > 1
    /\ Len(decomposition) >= 1
    /\ \E i \in 1..(n * c) : match[i] # i - 1

\* the padding indices m .. c*n-1
IsDummy(x) == x >= Len(utils[1])

\* C5: each row of the ordinal profile is a permutation of [0, c*n) with
\* c = ceil(m/n), by non-increasing utility with ties by ascending index; the
\* indices m .. c*n-1 are the dummies and come after every real item.
C5_OrdinalProfile ==
    pc = "run_ps" =>
        /\ n = Len(utils) /\ m = Len(utils[1])
        /\ c * n >= m /\ (c - 1) * n < m
        /\ Len(prefs) = n
        /\ \A a \in 1..n :
               /\ Len(prefs[a]) = c * n
               /\ Range(prefs[a]) = 0..(c * n - 1)
               /\ \A i, k \in 1..(c * n) : i < k =>
                      LET x == prefs[a][i]
                          y == prefs[a][k]
                      IN  IF IsDummy(x) THEN IsDummy(y) /\ x < y
                          ELSE \/ IsDummy(y)
                               \/ utils[a][x + 1] > utils[a][y + 1]
                               \/ utils[a][x + 1] = utils[a][y + 1] /\ x < y

C5_Witness ==
    /\ pc = "run_ps"
    /\ c * n > m
    /\ \E a \in 1..n : \E j, k \in 1..m : j # k /\ utils[a][j] = utils[a][k]
    /\ \E a \in 1..n : prefs[a][1] # 0

\* a utility matrix generate_prefs is meant to take: n >= 1 rows of one length m >= 1
ValidUtils(u) ==
    /\ Len(u) >= 1
    /\ Len(u[1]) >= 1
    /\ \A i \in 1..Len(u) : Len(u[i]) = Len(u[1])

\* C6: on a matrix with no rows, no columns or rows of different lengths,
\* generate_prefs fails with a ValidationError and computes nothing.
C6_ValidationError ==
    (pc # "generate_prefs" /\ ~ValidUtils(utils)) =>
        /\ exc = "ValidationError"
        /\ pc = "error"
        /\ prefs = <<>>

\* a perfect matching of the support graph of al: a column with a positive
\* entry for every row, no column twice
HasPerfectMatching(al, size) ==
    \E f \in [1..size -> 1..size] :
        /\ \A i, k \in 1..size : i # k => f[i] # f[k]
        /\ \A i \in 1..size : FLt(Zero, al[i][f[i]])

\* C7: hopcroft_karp invoked on a matrix whose support graph has no perfect
\* matching fails with InternalInvariantViolation and hands no matching back.
C7_InvariantViolation ==
    [][(pc = "dec_loop" /\ non_zero # 0 /\ ~HasPerfectMatching(rep_alloc, n * c)) =>
           (pc' = "error" /\ exc' = "InternalInvariantViolation" /\ match' = match)]_vars

\* C8: run_ps, representative and decompose leave the preference lists and the
\* allocation matrices passed to them as they were before the call.
C8_InputsUntouched ==
    [][/\ pc \in {"run_ps", "ps_loop"} => prefs' = prefs
       /\ pc = "representative" => (prefs' = prefs /\ ps_alloc' = ps_alloc)
       /\ pc \in {"decompose", "dec_loop", "dec_apply"} => rep_alloc' = rep_alloc]_vars

AllZero(M) == \A i \in 1..Len(M) : \A j \in 1..Len(M[i]) : M[i][j] = Zero

\* the items that still have supply
Unexhausted(ob) == {x \in 1..Len(ob) : ob[x] # Zero}

\* position in the script, counted down to the return of decompose
Phase ==
    CASE pc = "generate_prefs" -> 6
      [] pc = "run_ps" -> 5
      [] pc = "ps_loop" -> 4
      [] pc = "representative" -> 3
      [] pc = "decompose" -> 2
      [] pc \in {"dec_loop", "dec_apply"} -> 1
      [] OTHER -> 0

\* what is left to do inside the loop of the phase
Variant ==
    CASE pc = "ps_loop" -> Cardinality(Unexhausted(objs))
      [] pc = "dec_loop" -> 2 * non_zero + 1
      [] pc = "dec_apply" -> 2 * non_zero
      [] OTHER -> 0

\* C9: both loops terminate.  Every step moves the script on or lowers the
\* variant of its loop, which stays >= 0, and no step raises.  Each run_ps round
\* brings the supply of at least one item to exactly 0, none below 0 and none
\* back up; when every list is empty, and only then, the loop is left; each
\* decompose round lowers the positive-entry counter by at least one and not
\* below 0, and the loop is left with the counter at 0 and the working matrix
\* all zero.
C9_Termination ==
    /\ [][/\ pc' # "error"
          /\ \/ Phase' < Phase
             \/ Phase' = Phase /\ Variant' < Variant /\ Variant' >= 0]_vars
    /\ [][(pc = "ps_loop" /\ Len(ps_prefs[1]) > 0) =>
              /\ pc' = "ps_loop"
              /\ Unexhausted(objs') \subseteq Unexhausted(objs)
              /\ Unexhausted(objs') # Unexhausted(objs)
              /\ \A x \in 1..(c * n) : FLe(Zero, objs'[x])]_vars
    /\ [][(pc = "ps_loop" /\ pc' = "representative") =>
              \A a \in 1..n : Len(ps_prefs[a]) = 0]_vars
    /\ [][(pc = "ps_loop" /\ \A a \in 1..n : Len(ps_prefs[a]) = 0) =>
              pc' = "representative"]_vars
    /\ [][pc = "dec_loop" => (pc' = "dec_apply" <=> non_zero # 0)]_vars
    /\ [][pc = "dec_apply" =>
              (pc' = "dec_loop" /\ non_zero' < non_zero /\ non_zero' >= 0)]_vars
    /\ [][(pc = "dec_loop" /\ pc' = "done") =>
              (non_zero = 0 /\ AllZero(rep_alloc))]_vars

C9_Witness ==
    /\ pc = "done"
    /\ c > 1
    /\ Len(decomposition) >= 4
    /\ \E a \in 1..n : \E x \in 1..(c * n) : PsOfUtils[a][x].den > 2

\* C10: representative returns c rows per agent, rows k*c .. k*c+c-1 for agent
\* k, each summing to exactly 1; the c rows of an agent add up, column by
\* column, to the agent's run_ps allocation; no empty list is read.
C10_Representatives ==
    [][pc = "representative" =>
           /\ pc' = "decompose"
           /\ Len(rep_alloc') = n * c
           /\ \A k \in 1..(n * c) :
                  /\ Len(rep_alloc'[k]) = c * n
                  /\ FSum(rep_alloc'[k]) = One
           /\ \A a \in 1..n : \A j \in 1..(c * n) :
                  FSum([r \in 1..c |-> rep_alloc'[(a - 1) * c + r][j]]) = ps_alloc[a][j]]_vars

C10_Witness ==
    /\ pc = "decompose"
    /\ c > 1
    /\ \E a \in 1..n : \E j \in 1..(c * n) :
           /\ FLt(Zero, rep_alloc[(a - 1) * c + 1][j])
           /\ FLt(Zero, rep_alloc[(a - 1) * c + 2][j])

====
